---- MODULE Spec2Model ----
(***************************************************************************)
(* Model of backend/src/media.py: the pipeline run by main() that checks   *)
(* an .mp4 file, segments it with video2hls, gzips the playlists, uploads  *)
(* the HLS files to S3, prints the playlist URL and removes the local      *)
(* output directory.  The file system, the segmenter's result and the S3   *)
(* client are the environment; every function of media.py is modelled by   *)
(* the statements it executes.                                             *)
(***************************************************************************)
EXTENDS Integers, Sequences, FiniteSets, TLC

VARIABLES pc, argc, src, out, work, cls, s3, url, log, seg, failed, ret,
          calls, entry

vars == <<pc, argc, src, out, work, cls, s3, url, log, seg, failed, ret,
          calls, entry>>

(* ---------------------------- bounds ----------------------------------- *)

\* number of subdirectories the output directory may have below its root
NumSubdirs == 1
\* largest number of files the segmenter leaves in the output directory
MaxFiles == 3
\* largest number of compress_fmp4 invocations on one directory
MaxCalls == 2

(* ------------------------ the file system ------------------------------ *)

\* directory 0 is the output directory itself, 1.. are its subdirectories
Dirs == 0..NumSubdirs

\* a file name is the sequence of its dot-separated components
FileNames ==
    { <<"index", "m3u8">>, <<"720p", "m3u8">>, <<"poster", "jpg">>,
      <<"seg0", "mp4">>, <<"notes", "txt">> }

Paths == [dir : Dirs, name : FileNames]

\* the bytes the segmenter wrote to the file at path p
Raw(p) == [orig |-> p, enc |-> <<>>, whole |-> TRUE]

\* gzip.open(..., 'wb') + writelines: one more gzip layer around the bytes
Gzip(b) == [b EXCEPT !.enc = <<"gzip">> \o @]

\* what is left in the .gz file when the write stops early
Truncated(b) == [b EXCEPT !.whole = FALSE]

NoDir == [exists |-> FALSE, files |-> <<>>]

\* a directory tree holding the files of layout S, each gzipped n times
RECURSIVE GzipTimes(_, _)
GzipTimes(b, n) == IF n = 0 THEN b ELSE Gzip(GzipTimes(b, n - 1))

Tree(S, n) == [exists |-> TRUE, files |-> [p \in S |-> 
                 IF p.name[Len(p.name)] = "m3u8" THEN GzipTimes(Raw(p), n)
                                                  ELSE Raw(p)]]

Layouts == { S \in SUBSET Paths : Cardinality(S) <= MaxFiles }

\* Path(dir).rglob('*.' + ext): every file below dir, at any depth, whose
\* name ends in .ext; nothing when dir does not exist
rglob(dir, ext) ==
    IF dir.exists
    THEN { p \in DOMAIN dir.files : p.name[Len(p.name)] = ext }
    ELSE {}

\* os.path.join(path_to_fmp4, path.name): the file of that name directly
\* in the output directory
filepath(path) == [dir |-> 0, name |-> path.name]

\* filepath + '.gz'
GzPath(fp) == [dir |-> fp.dir, name |-> fp.name \o <<"gz">>]

\* writing the file at path p of directory dir
WriteFile(dir, p, b) ==
    [dir EXCEPT !.files = [q \in (DOMAIN dir.files) \cup {p} |->
                              IF q = p THEN b ELSE dir.files[q]]]

\* os.replace(from, to)
Replace(dir, from, to) ==
    [dir EXCEPT !.files = [q \in ((DOMAIN dir.files) \ {from}) \cup {to} |->
                              IF q = to THEN dir.files[from] ELSE dir.files[q]]]

(* --------------------------- constants --------------------------------- *)

REGION_NAME == "us-east-2"
BUCKET_NAME == "appdev-backend-final"

\* os.path.basename(path_to_fmp4) for the one input path of the model
fmp4_filename == "clip.fmp4"

\* variant: the poster loop placed before the playlist loop
UploadClassesPosterFirst ==
    << [ext |-> "jpg", ContentType |-> "image/jpeg", ContentEncoding |-> "none"],
       [ext |-> "m3u8", ContentType |-> "application/vnd.apple.mpegurl",
        ContentEncoding |-> "gzip"],
       [ext |-> "mp4", ContentType |-> "video/mp4", ContentEncoding |-> "none"] >>

\* the three upload loops of upload_to_aws, in program order
UploadClasses ==
    << [ext |-> "m3u8", ContentType |-> "application/vnd.apple.mpegurl",
        ContentEncoding |-> "gzip"],
       [ext |-> "jpg", ContentType |-> "image/jpeg", ContentEncoding |-> "none"],
       [ext |-> "mp4", ContentType |-> "video/mp4", ContentEncoding |-> "none"] >>

\* f"hls/{fmp4_filename}/{key}"
ObjectKey(name) == [prefix |-> "hls", base |-> fmp4_filename, name |-> name]

get_object_url(bucket_name, bucket_region, base) ==
    [bucket |-> bucket_name, region |-> bucket_region,
     key |-> [prefix |-> "hls", base |-> base, name |-> <<"index", "m3u8">>]]

NoUrl == [bucket |-> "", region |-> "", key |-> [prefix |-> "", base |-> "", name |-> <<>>]]

(* ------------------------- control flow -------------------------------- *)

\* variant: main runs remove_fmp4 in a finally clause around compress/upload
OnExceptionCleanup(step) ==
    IF step \in {"compress", "upload"} THEN "remove" ELSE "aborted"

\* variant: a failed upload is caught inside the loop, which goes on
OnExceptionSwallow(step) ==
    IF step = "upload" THEN "upload_loop" ELSE "aborted"

\* an exception raised in a step propagates out of main: nothing catches it
OnException(step) == "aborted"

\* variant: the return after "Corrupt MP4" is missing
AfterVerifyNoReturn(valid) == "convert"

\* main, lines 140-143: return after "Corrupt MP4", else go on to convert
AfterVerify(valid) == IF valid THEN "convert" ELSE "done"

\* what video2hls can leave behind: exit status 0 with an output directory
\* that holds the master playlist index.m3u8, or a non-zero status with no
\* directory, an empty directory or any partial one
SegmenterOutcomes ==
    { [exit |-> 0, dir |-> Tree(S, 0)] :
          S \in { T \in Layouts : [dir |-> 0, name |-> <<"index", "m3u8">>] \in T } }
    \cup { [exit |-> 1, dir |-> NoDir] }
    \cup { [exit |-> 1, dir |-> Tree(S, 0)] : S \in Layouts }

NoSeg == [ran |-> FALSE, exit |-> 0, dir |-> NoDir]

(* ------------------------------ main ----------------------------------- *)

Init ==
    /\ pc = "start"
    /\ argc \in {1, 2}
    /\ src \in { [exists |-> FALSE, valid |-> FALSE],
                 [exists |-> TRUE, valid |-> FALSE],
                 [exists |-> TRUE, valid |-> TRUE] }
    /\ out = NoDir
    /\ work = {}
    /\ cls = 0
    /\ s3 = <<>>
    /\ url = NoUrl
    /\ log = <<>>
    /\ seg = NoSeg
    /\ failed = "none"
    /\ ret = "upload"
    /\ calls = 0
    /\ entry = NoDir

\* lines 134-136: no path argument
Usage ==
    /\ pc = "start"
    /\ argc < 2
    /\ log' = Append(log, "print_usage")
    /\ pc' = "done"
    /\ UNCHANGED <<argc, src, out, work, cls, s3, url, seg, failed, ret, calls, entry>>

\* line 139: open() raises when the path names no file
OpenFails ==
    /\ pc = "start"
    /\ argc >= 2
    /\ ~src.exists
    /\ failed' = "open"
    /\ pc' = OnException("open")
    /\ UNCHANGED <<argc, src, out, work, cls, s3, url, log, seg, ret, calls, entry>>

\* lines 139-142: verify_mp4_integrity, "Corrupt MP4" and return when false
Verify ==
    /\ pc = "start"
    /\ argc >= 2
    /\ src.exists
    /\ log' = IF src.valid THEN Append(log, "verify")
                           ELSE log \o <<"verify", "print_corrupt">>
    /\ pc' = AfterVerify(src.valid)
    /\ UNCHANGED <<argc, src, out, work, cls, s3, url, seg, failed, ret, calls, entry>>

\* line 39: subprocess.run raises when the video2hls executable is missing
ConvertExecFails ==
    /\ pc = "convert"
    /\ failed' = "segment"
    /\ pc' = OnException("segment")
    /\ UNCHANGED <<argc, src, out, work, cls, s3, url, log, seg, ret, calls, entry>>

\* lines 37-43: run the segmenter, discard its exit status, remove the .mp4
convert_mp4_to_hsl ==
    /\ pc = "convert"
    /\ \E o \in SegmenterOutcomes :
          /\ seg' = [ran |-> TRUE, exit |-> o.exit, dir |-> o.dir]
          /\ out' = o.dir
    /\ src' = [src EXCEPT !.exists = FALSE]
    /\ log' = log \o <<"segment", "rm_src">>
    /\ pc' = "compress"
    /\ UNCHANGED <<argc, work, cls, s3, url, failed, ret, calls, entry>>

(* -------------------------- compress_fmp4 ------------------------------ *)

\* line 53: the call and the start of the rglob loop
CompressBegin ==
    /\ pc = "compress"
    /\ work' = rglob(out, "m3u8")
    /\ entry' = out
    /\ calls' = calls + 1
    /\ log' = Append(log, "compress")
    /\ pc' = "compress_loop"
    /\ UNCHANGED <<argc, src, out, cls, s3, url, seg, failed, ret>>

\* line 56: open(filepath, 'rb') raises when no file of that name lies
\* directly in the output directory
CompressOpenFails ==
    /\ pc = "compress_loop"
    /\ \E path \in work : filepath(path) \notin DOMAIN out.files
    /\ failed' = "compress"
    /\ pc' = OnException("compress")
    /\ UNCHANGED <<argc, src, out, work, cls, s3, url, log, seg, ret, calls, entry>>

\* lines 56-57: an I/O error while the .gz file is written
CompressWriteFails ==
    /\ pc = "compress_loop"
    /\ \E path \in work :
          /\ filepath(path) \in DOMAIN out.files
          /\ out' = WriteFile(out, GzPath(filepath(path)),
                              Truncated(Gzip(out.files[filepath(path)])))
    /\ failed' = "compress"
    /\ pc' = OnException("compress")
    /\ UNCHANGED <<argc, src, work, cls, s3, url, log, seg, ret, calls, entry>>

\* lines 54-59: one pass of the loop body
CompressIter ==
    /\ pc = "compress_loop"
    /\ \E path \in work :
          /\ filepath(path) \in DOMAIN out.files
          /\ out' = Replace(WriteFile(out, GzPath(filepath(path)),
                                      Gzip(out.files[filepath(path)])),
                            GzPath(filepath(path)), filepath(path))
          /\ work' = work \ {path}
    /\ UNCHANGED <<pc, argc, src, cls, s3, url, log, seg, failed, ret, calls, entry>>

\* line 60: the loop is exhausted, print and return to the caller
CompressReturn ==
    /\ pc = "compress_loop"
    /\ work = {}
    /\ log' = Append(log, "print_compressed")
    /\ pc' = ret
    /\ UNCHANGED <<argc, src, out, work, cls, s3, url, seg, failed, ret, calls, entry>>

(* -------------------------- upload_to_aws ------------------------------ *)

\* lines 74-76: the call and the start of the first rglob loop
UploadBegin ==
    /\ pc = "upload"
    /\ cls' = 1
    /\ work' = rglob(out, UploadClasses[1].ext)
    /\ log' = Append(log, "upload")
    /\ pc' = "upload_loop"
    /\ UNCHANGED <<argc, src, out, s3, url, seg, failed, ret, calls, entry>>

\* lines 78, 89, 99: open(filepath, 'rb') raises
UploadOpenFails ==
    /\ pc = "upload_loop"
    /\ \E path \in work : filepath(path) \notin DOMAIN out.files
    /\ failed' = "upload"
    /\ pc' = OnException("upload")
    /\ UNCHANGED <<argc, src, out, work, cls, s3, url, log, seg, ret, calls, entry>>

\* lines 80, 91, 101: s3.upload_fileobj raises
UploadFails ==
    /\ pc = "upload_loop"
    /\ \E path \in work : filepath(path) \in DOMAIN out.files
    /\ failed' = "upload"
    /\ pc' = OnException("upload")
    /\ UNCHANGED <<argc, src, out, work, cls, s3, url, log, seg, ret, calls, entry>>

\* lines 77-85, 88-95, 98-105: one pass of the body of the current loop
UploadIter ==
    /\ pc = "upload_loop"
    /\ \E path \in work :
          /\ filepath(path) \in DOMAIN out.files
          /\ s3' = Append(s3, [Bucket |-> BUCKET_NAME,
                               Key |-> ObjectKey(path.name),
                               Body |-> out.files[filepath(path)],
                               ContentType |-> UploadClasses[cls].ContentType,
                               ContentEncoding |-> UploadClasses[cls].ContentEncoding,
                               ACL |-> "public-read",
                               CacheControl |-> "max-age=31536000,public"])
          /\ work' = work \ {path}
    /\ log' = Append(log, "put_" \o UploadClasses[cls].ext)
    /\ UNCHANGED <<pc, argc, src, out, cls, url, seg, failed, ret, calls, entry>>

\* lines 87, 97: the current loop is exhausted, the next one starts
UploadNextClass ==
    /\ pc = "upload_loop"
    /\ work = {}
    /\ cls < Len(UploadClasses)
    /\ cls' = cls + 1
    /\ work' = rglob(out, UploadClasses[cls + 1].ext)
    /\ UNCHANGED <<pc, argc, src, out, s3, url, log, seg, failed, ret, calls, entry>>

\* lines 106-107: the last loop is exhausted, build the URL and return
UploadReturn ==
    /\ pc = "upload_loop"
    /\ work = {}
    /\ cls = Len(UploadClasses)
    /\ url' = get_object_url(BUCKET_NAME, REGION_NAME, fmp4_filename)
    /\ pc' = "print"
    /\ UNCHANGED <<argc, src, out, work, cls, s3, log, seg, failed, ret, calls, entry>>

\* line 146
PrintUrl ==
    /\ pc = "print"
    /\ log' = Append(log, "print_url")
    /\ pc' = "remove"
    /\ UNCHANGED <<argc, src, out, work, cls, s3, url, seg, failed, ret, calls, entry>>

\* lines 119, 147: shutil.rmtree removes the directory
remove_fmp4 ==
    /\ pc = "remove"
    /\ out.exists
    /\ out' = NoDir
    /\ log' = Append(log, "rmtree")
    /\ pc' = "done"
    /\ UNCHANGED <<argc, src, work, cls, s3, url, seg, failed, ret, calls, entry>>

\* line 119: shutil.rmtree raises when the directory does not exist
RemoveFails ==
    /\ pc = "remove"
    /\ ~out.exists
    /\ failed' = "remove"
    /\ pc' = OnException("remove")
    /\ UNCHANGED <<argc, src, out, work, cls, s3, url, log, seg, ret, calls, entry>>

Next ==
    \/ Usage
    \/ OpenFails
    \/ Verify
    \/ ConvertExecFails
    \/ convert_mp4_to_hsl
    \/ CompressBegin
    \/ CompressOpenFails
    \/ CompressWriteFails
    \/ CompressIter
    \/ CompressReturn
    \/ UploadBegin
    \/ UploadOpenFails
    \/ UploadFails
    \/ UploadIter
    \/ UploadNextClass
    \/ UploadReturn
    \/ PrintUrl
    \/ remove_fmp4
    \/ RemoveFails

Spec == Init /\ [][Next]_vars

(* ------------- compress_fmp4 called on a directory by itself ----------- *)

\* the directory is a segmenter output, fresh (n = 0) or already compressed
\* once (n = 1)
InitCompress ==
    /\ pc = "compress"
    /\ argc = 2
    /\ src = [exists |-> FALSE, valid |-> TRUE]
    /\ \E S \in Layouts, n \in {0, 1} : out = Tree(S, n)
    /\ work = {}
    /\ cls = 0
    /\ s3 = <<>>
    /\ url = NoUrl
    /\ log = <<>>
    /\ seg = NoSeg
    /\ failed = "none"
    /\ ret = "idle"
    /\ calls = 0
    /\ entry = NoDir

\* the caller invokes compress_fmp4 on the same directory again
Recompress ==
    /\ pc = "idle"
    /\ calls < MaxCalls
    /\ pc' = "compress"
    /\ UNCHANGED <<argc, src, out, work, cls, s3, url, log, seg, failed, ret, calls, entry>>

NextCompress ==
    \/ CompressBegin
    \/ CompressOpenFails
    \/ CompressWriteFails
    \/ CompressIter
    \/ CompressReturn
    \/ Recompress

SpecCompress == InitCompress /\ [][NextCompress]_vars

(* ----------------------------- properties ------------------------------ *)

Has(e) == \E i \in 1..Len(log) : log[i] = e

Repeat(e, n) == [i \in 1..n |-> e]

Ext(p) == p.name[Len(p.name)]

UploadExts == { UploadClasses[k].ext : k \in 1..Len(UploadClasses) }

\* the segmenter ran and failed: non-zero exit status, no output directory
\* or an empty one
SegFailed ==
    /\ seg.ran
    /\ \/ seg.exit # 0
       \/ ~seg.dir.exists
       \/ DOMAIN seg.dir.files = {}

\* C1: when the input fails verify_mp4_integrity the segmenter is never
\* invoked, the source file stays, no file is created, changed or removed,
\* nothing is uploaded, and the run ends right after the corruption message.
C1_CorruptInputTouchesNothing ==
    (argc >= 2 /\ ~src.valid /\ Has("verify")) =>
        /\ ~Has("segment") /\ ~Has("rm_src") /\ ~seg.ran
        /\ src.exists
        /\ out = NoDir
        /\ s3 = <<>>
        /\ log = <<"verify", "print_corrupt">>
        /\ pc = "done"

C1_Witness == pc = "done" /\ Has("print_corrupt") /\ src.exists /\ ~src.valid

\* C2: when the segmenter fails (non-zero exit status, no output directory
\* or an empty one) the source .mp4 file is not deleted.
C2_SourceKeptWhenSegmenterFails ==
    (SegFailed \/ failed = "segment") => src.exists

\* C3: a failure at any step moves the run to Aborted and no later step is
\* invoked; after a failed segmentation neither compress_fmp4, upload_to_aws,
\* the URL print nor remove_fmp4 runs.
C3_FailureAbortsRun ==
    /\ failed # "none" => pc = "aborted"
    /\ SegFailed => /\ ~Has("compress") /\ ~Has("upload")
                    /\ ~Has("print_url") /\ ~Has("rmtree")

\* C4: once upload_to_aws has returned, every .m3u8, .jpg and .mp4 file of
\* the output directory, at any depth, was uploaded exactly once with its own
\* bytes, and no file of another extension was uploaded.
C4_EachKnownFileUploadedOnce ==
    (pc \in {"print", "remove"} /\ out.exists) =>
        \A p \in DOMAIN out.files :
            Cardinality({ i \in 1..Len(s3) : s3[i].Body = out.files[p] })
                = IF Ext(p) \in UploadExts THEN 1 ELSE 0

\* C5: the output directory is removed only after upload_to_aws returned;
\* when compression or an upload fails the output directory still exists
\* and the source file is already gone.
C5_OutputKeptUnlessPublished ==
    /\ Has("rmtree") => (url # NoUrl /\ failed = "none")
    /\ failed \in {"compress", "upload"} => (out.exists /\ ~src.exists)

C5_Witness ==
    /\ pc = "aborted" /\ failed = "upload" /\ Len(s3) >= 1
    /\ out.exists /\ ~src.exists

\* C6: the URL is printed only after every upload of the run succeeded; a
\* failed upload aborts the remaining uploads and no URL is printed.
C6_UrlOnlyAfterAllUploads ==
    /\ [](/\ failed = "upload" => (pc = "aborted" /\ ~Has("print_url") /\ url = NoUrl)
          /\ (Has("print_url") /\ out.exists) =>
                /\ failed = "none"
                /\ Len(s3) = Cardinality({ p \in DOMAIN out.files : Ext(p) \in UploadExts }))
    /\ [][failed = "upload" => (s3' = s3 /\ log' = log)]_vars

C6_Witness ==
    /\ pc = "aborted" /\ failed = "upload" /\ Len(s3) >= 1 /\ work # {}
    /\ cls < Len(UploadClasses)

\* C7: whenever the URL is printed, an object with the key of that URL,
\* hls/{base_name}/index.m3u8, was uploaded earlier in the run.
C7_PrintedUrlWasPublished ==
    Has("print_url") => \E i \in 1..Len(s3) : s3[i].Key = url.key

\* C8: after compress_fmp4 returns on a directory whose playlists are all
\* uncompressed, every .m3u8 file at any depth holds one gzip encoding of
\* its own original bytes under its own name, no .gz file remains and no
\* other file has changed.
C8_EveryManifestGzippedOnce ==
    (/\ pc = "idle"
     /\ \A p \in rglob(entry, "m3u8") : entry.files[p].enc = <<>>) =>
        /\ DOMAIN out.files = DOMAIN entry.files
        /\ \A p \in DOMAIN entry.files :
              out.files[p] = IF Ext(p) = "m3u8" THEN Gzip(entry.files[p])
                                                ELSE entry.files[p]

\* C9: compress_fmp4 invoked on a directory whose playlists are already
\* gzip-encoded never returns normally with a playlist encoded twice.
C9_NoSilentDoubleEncoding ==
    (/\ pc = "idle"
     /\ \A p \in rglob(entry, "m3u8") : Len(entry.files[p].enc) >= 1) =>
        \A p \in rglob(out, "m3u8") : Len(out.files[p].enc) <= 1

\* C10: a run in which no step fails performs integrity check, segmenter,
\* source removal, compression, the uploads (playlists, then posters, then
\* fragments), URL print and directory removal, each once and in this order,
\* and ends with neither the source file nor the output directory present.
C10_HappyPathOrder ==
    (pc = "done" /\ src.valid /\ Has("verify") /\ ~SegFailed /\ failed = "none") =>
        /\ log = <<"verify", "segment", "rm_src", "compress", "print_compressed",
                   "upload">>
                 \o Repeat("put_m3u8", Cardinality(rglob(seg.dir, "m3u8")))
                 \o Repeat("put_jpg", Cardinality(rglob(seg.dir, "jpg")))
                 \o Repeat("put_mp4", Cardinality(rglob(seg.dir, "mp4")))
                 \o <<"print_url", "rmtree">>
        /\ Len(s3) = Cardinality({ p \in DOMAIN seg.dir.files : Ext(p) \in UploadExts })
        /\ ~src.exists
        /\ ~out.exists

C10_Witness ==
    /\ pc = "done" /\ ~SegFailed /\ failed = "none"
    /\ Has("put_m3u8") /\ Has("put_jpg") /\ Has("put_mp4") /\ Has("rmtree")

====
